---- MODULE Spec2Model ----
(***************************************************************************)
(* Model of src/multer.js: an express server that stages image uploads     *)
(* with multer, commits them (temp -> original rename), derives a          *)
(* thumbnail and a medium variant with sharp, keeps the records in the     *)
(* in-memory array fileDatabase and deletes records together with their    *)
(* files.  The handlers are asynchronous: an upload request is cut at its  *)
(* await points, the get, list and delete handlers are synchronous and     *)
(* run as one step each.                                                   *)
(***************************************************************************)
EXTENDS Integers, Sequences, FiniteSets, TLC

VARIABLES
    fileDatabase,  \* the array fileDatabase: the catalog
    disk,          \* the files present under uploads/, as <<directory, name>>
    req,           \* the upload requests in flight, one per slot
    res,           \* the response the last step sent, NoResp when it sent none
    nextRef,       \* identity of the next fileInfo object
    ntaken,        \* files handed to the upload handlers so far
    nexternal,     \* files removed from outside so far
    made,          \* history: per record, the pipeline steps done when it was pushed
    extRemoved,    \* history: stored files removed from outside and not rewritten
    step           \* history: what the last step did (disk calls, error, request)

vars == <<fileDatabase, disk, req, res, nextRef, ntaken, nexternal, made, extRemoved, step>>

(* ------------------------------ bounds -------------------------------- *)

\* a request is explored next to another one in flight while it has staged
\* at most this many files; a longer request is explored on its own
MaxConcurrentFiles == 1

\* total number of files the model lets the upload handlers take over a run
MaxRecords == 2

\* number of files removed from outside over a run (SpecExt)
MaxExternal == 1

\* the upload requests that can be in flight together: one to
\* /api/upload/multiple and one to /api/upload/single
Routes == [r1 |-> "multiple", r2 |-> "single"]

Procs == DOMAIN Routes

\* values crypto.randomBytes(16) + extension can take (storage names)
Names == {"f", "g"}

\* values crypto.randomBytes(8) can take (record ids)
Ids == {"a", "b"}

\* declared media types the clients send
InputMimeTypes == {"image/png", "text/plain"}

(* ------------------------- program constants -------------------------- *)

UPLOAD_DIRS == [original |-> "original", thumbnail |-> "thumbnail",
                medium |-> "medium", temp |-> "temp"]

allowedMimeTypes == {"image/jpeg", "image/png", "image/gif", "image/webp"}

\* limits.fileSize = 5 * 1024 * 1024
FileSizeLimit == 5242880

\* limits.files, and the maxCount of upload.array("images", 5)
FilesLimit == 5

\* byte sizes the clients send: at the limit and one byte over it
InputSizes == {FileSizeLimit, FileSizeLimit + 1}

(* ------------------------------ helpers ------------------------------- *)

\* path.join(dir, filename)
Path(dir, filename) == <<dir, filename>>

\* fs.existsSync(path)
existsSync(d, p) == p \in d

\* the permanent directories
Dirs == {UPLOAD_DIRS.original, UPLOAD_DIRS.thumbnail, UPLOAD_DIRS.medium}

\* the files of d in original/, thumbnail/ and medium/
Stored(d) == {p \in d : p[1] \in Dirs}

\* res.status(..).json(..): files is the record or the records of the body
NoResp == [op |-> "none", id |-> "", status |-> 0, error |-> "", message |-> "",
           partialSuccess |-> FALSE, files |-> <<>>]

Resp(op, status, error, message) ==
    [NoResp EXCEPT !.op = op, !.status = status, !.error = error,
                   !.message = message]

\* an upload request: its position, the route, req.files, the loop index and
\* uploadedFiles; ok is the set of pipeline steps done for the current file
IdleReq == [pc |-> "idle", kind |-> "none", files |-> <<>>, i |-> 0,
            uploadedFiles |-> <<>>, ok |-> {}]

NoError == [multer |-> FALSE, code |-> "", message |-> ""]

\* what a step that touches no file and ends no request leaves in step
\* (io: the outcome of the delete loop per path; deleted: the record a delete
\* removed; ext: one of its files had been removed from outside; err: the
\* error multer raised; i, n, uploaded, ok: the loop index, the number of
\* files, uploadedFiles and the pipeline steps done for the current file of a
\* request that ended in the catch block)
NoStep == [io |-> <<>>, deleted |-> <<>>, ext |-> FALSE, err |-> NoError,
           i |-> 0, n |-> 0, uploaded |-> <<>>, ok |-> {}]

\* the Error fileFilter passes to its callback
FilterError ==
    [multer |-> FALSE, code |-> "",
     message |-> "Invalid file type. Only JPEG, PNG, GIF, and WebP images are allowed."]

\* new MulterError(code), with the message multer gives the code
MulterError(code) ==
    [multer |-> TRUE, code |-> code,
     message |-> CASE code = "LIMIT_FILE_SIZE" -> "File too large"
                   [] code = "LIMIT_FILE_COUNT" -> "Too many files"
                   [] OTHER -> "Unexpected field"]

\* app.use((err, req, res, next) => ...): the last error middleware
ErrorMiddleware(err) == Resp("upload", 500, "Server error", "")

\* handleMulterError with the answer of LIMIT_FILE_SIZE given to every
\* MulterError
handleMulterError_OneMessage(err) ==
    IF err.multer
    THEN Resp("upload", 400, "File too large. Maximum size is 5MB.", "")
    ELSE ErrorMiddleware(err)

\* handleMulterError(err, req, res, next)
handleMulterError(err) ==
    IF err.multer
    THEN IF err.code = "LIMIT_FILE_SIZE"
         THEN Resp("upload", 400, "File too large. Maximum size is 5MB.", "")
         ELSE IF err.code = "LIMIT_FILE_COUNT"
         THEN Resp("upload", 400, "Too many files. Maximum is 5 files.", "")
         ELSE Resp("upload", 400, err.message, "")
    ELSE ErrorMiddleware(err)

\* fileFilter(req, file, cb): TRUE when the file is accepted
fileFilter(mimetype) == mimetype \in allowedMimeTypes

\* files the field may take: upload.single("image") 1, upload.array("images", 5) 5
MaxCount(kind) == IF kind = "single" THEN 1 ELSE 5

\* the history variables after a step that leaves s in step
History(s) ==
    /\ step' = s
    /\ extRemoved' = extRemoved \ disk'
    /\ UNCHANGED nexternal

(* ------------------------------- Init --------------------------------- *)

Init ==
    /\ fileDatabase = <<>>
    /\ disk = {}
    /\ req = [p \in Procs |-> IdleReq]
    /\ res = NoResp
    /\ nextRef = 1
    /\ ntaken = 0
    /\ nexternal = 0
    /\ made = <<>>
    /\ extRemoved = {}
    /\ step = NoStep

(* ------------------ multer: validation and staging -------------------- *)

\* a POST /api/upload/single or /api/upload/multiple request arrives
StartUpload(p) ==
    /\ req[p].pc = "idle"
    /\ \A q \in Procs \ {p} : Len(req[q].files) <= MaxConcurrentFiles
    /\ req' = [req EXCEPT ![p] = [IdleReq EXCEPT !.pc = "parsing",
                                                 !.kind = Routes[p]]]
    /\ res' = NoResp
    /\ UNCHANGED <<fileDatabase, disk, nextRef, ntaken, made>>
    /\ History(NoStep)

\* multer aborts the request: the files it staged for this request are
\* removed from temp and the error goes to handleMulterError
Abort(p, err, staged) ==
    /\ disk' = disk \ {Path(UPLOAD_DIRS.temp, n) : n \in staged}
    /\ req' = [req EXCEPT ![p] = IdleReq]
    /\ res' = handleMulterError(err)
    /\ History([NoStep EXCEPT !.err = err])

\* the part of the state space explored: a request stages a further file
\* next to another request in flight while it is short, and within the files
\* the run may still take; a request longer than that is explored on its
\* own and before any file was taken
StageAllowed(p) ==
    /\ \/ Len(req[p].files) < MaxConcurrentFiles
       \/ \A q \in Procs \ {p} : req[q].pc = "idle"
    /\ \/ ntaken + Len(req[p].files) < MaxRecords
       \/ ntaken = 0

\* one file part of the multipart body reaches multer: the files limit of
\* busboy, the count of the field, fileFilter, then diskStorage (a random
\* name in temp) and the size limit met while the part is written
MulterFile(p, mimetype, size, randomName) ==
    /\ req[p].pc = "parsing"
    /\ LET r == req[p]
           names == {r.files[k].filename : k \in 1..Len(r.files)}
       IN  IF Len(r.files) >= FilesLimit
           THEN Abort(p, MulterError("LIMIT_FILE_COUNT"), names)
           ELSE IF Len(r.files) >= MaxCount(r.kind)
           THEN Abort(p, MulterError("LIMIT_UNEXPECTED_FILE"), names)
           ELSE IF ~fileFilter(mimetype)
           THEN Abort(p, FilterError, names)
           ELSE /\ StageAllowed(p)
                /\ IF size > FileSizeLimit
                   THEN Abort(p, MulterError("LIMIT_FILE_SIZE"),
                              names \cup {randomName})
                   ELSE /\ disk' = disk \cup {Path(UPLOAD_DIRS.temp, randomName)}
                        /\ req' = [req EXCEPT ![p].files = Append(@,
                                      [filename |-> randomName,
                                       mimetype |-> mimetype, size |-> size])]
                        /\ res' = NoResp
                        /\ History(NoStep)
    /\ UNCHANGED <<fileDatabase, nextRef, ntaken, made>>

(* ------------------- the upload handlers' bodies ---------------------- *)

\* the catch block of the upload handlers
UploadError(kind) ==
    Resp("upload", 500,
         IF kind = "single" THEN "Error processing the uploaded file"
                            ELSE "Error processing the uploaded files", "")

\* fs.renameSync(file.path, originalFilePath): the disk after the move
renameSync(d, filename) ==
    (d \ {Path(UPLOAD_DIRS.temp, filename)})
        \cup {Path(UPLOAD_DIRS.original, filename)}

\* a catch block that rolls the request back: it unlinks the files of the
\* records the request has already pushed
Catch_Rollback(p, r, d) ==
    /\ disk' = d \ {Path(dir, r.uploadedFiles[k].filename) :
                        dir \in Dirs, k \in 1..Len(r.uploadedFiles)}
    /\ req' = [req EXCEPT ![p] = IdleReq]
    /\ res' = UploadError(r.kind)
    /\ History([NoStep EXCEPT !.i = r.i, !.n = Len(r.files),
                               !.uploaded = r.uploadedFiles, !.ok = r.ok])

\* a catch block that cleans up after the file that failed: it unlinks the
\* original and the derivatives written for it
Catch_Unlink(p, r, d) ==
    /\ disk' = d \ {Path(dir, r.files[r.i].filename) : dir \in Dirs}
    /\ req' = [req EXCEPT ![p] = IdleReq]
    /\ res' = UploadError(r.kind)
    /\ History([NoStep EXCEPT !.i = r.i, !.n = Len(r.files),
                               !.uploaded = r.uploadedFiles, !.ok = r.ok])

\* a catch block that sends no answer: the request stays open
Catch_NoAnswer(p, r, d) ==
    /\ disk' = d
    /\ req' = [req EXCEPT ![p] = [r EXCEPT !.pc = "failed"]]
    /\ res' = NoResp
    /\ History([NoStep EXCEPT !.i = r.i, !.n = Len(r.files),
                               !.uploaded = r.uploadedFiles, !.ok = r.ok])

\* an exception reaches the catch block: the request r ends with a 500 and
\* the disk is left as it is
Catch(p, r, d) ==
    /\ disk' = d
    /\ req' = [req EXCEPT ![p] = IdleReq]
    /\ res' = UploadError(r.kind)
    /\ History([NoStep EXCEPT !.i = r.i, !.n = Len(r.files),
                               !.uploaded = r.uploadedFiles, !.ok = r.ok])

\* CommitFile with a clean-up: when the rename throws, the staged file is
\* unlinked from temp
CommitFile_Unlink(p, r, d, renameOk) ==
    LET filename == r.files[r.i].filename
    IN  IF renameOk /\ existsSync(d, Path(UPLOAD_DIRS.temp, filename))
        THEN /\ disk' = renameSync(d, filename)
             /\ req' = [req EXCEPT ![p] = [r EXCEPT !.pc = "thumbnail",
                                                   !.ok = {"rename"}]]
             /\ res' = NoResp
             /\ History(NoStep)
        ELSE Catch(p, r, d \ {Path(UPLOAD_DIRS.temp, filename)})

\* the handler moves file r.i of the request from temp to original and calls
\* processImage, which starts the thumbnail and suspends at its first await;
\* a rename that throws ends the request in the catch block
CommitFile(p, r, d, renameOk) ==
    LET filename == r.files[r.i].filename
    IN  IF renameOk /\ existsSync(d, Path(UPLOAD_DIRS.temp, filename))
        THEN /\ disk' = renameSync(d, filename)
             /\ req' = [req EXCEPT ![p] = [r EXCEPT !.pc = "thumbnail",
                                                   !.ok = {"rename"}]]
             /\ res' = NoResp
             /\ History(NoStep)
        ELSE Catch(p, r, d)

\* multer has read the whole body without error: the handler body starts
MulterFinish(p, renameOk) ==
    /\ req[p].pc = "parsing"
    /\ IF req[p].files = <<>>
       THEN /\ res' = Resp("upload", 400,
                           IF req[p].kind = "single" THEN "No image uploaded"
                                                    ELSE "No images uploaded", "")
            /\ req' = [req EXCEPT ![p] = IdleReq]
            /\ UNCHANGED disk
            /\ History(NoStep)
       ELSE /\ ntaken + Len(req[p].files) <= MaxRecords
            /\ CommitFile(p, [req[p] EXCEPT !.i = 1], disk, renameOk)
    /\ ntaken' = ntaken + Len(req[p].files)
    /\ UNCHANGED <<fileDatabase, nextRef, made>>

\* ThumbnailDone whose success writes no file
ThumbnailDone_NoWrite(p, sharpOk) ==
    /\ req[p].pc = "thumbnail"
    /\ LET filename == req[p].files[req[p].i].filename
       IN  IF sharpOk /\ existsSync(disk, Path(UPLOAD_DIRS.original, filename))
           THEN /\ disk' = disk
                /\ req' = [req EXCEPT ![p].pc = "medium",
                                      ![p].ok = @ \cup {"thumbnail"}]
                /\ res' = NoResp
                /\ History(NoStep)
           ELSE Catch(p, req[p], disk)
    /\ UNCHANGED <<fileDatabase, nextRef, ntaken, made>>

\* processImage: sharp(originalPath).resize(200, 200).toFile(thumbnailPath)
\* settles; on success processImage starts the medium version
ThumbnailDone(p, sharpOk) ==
    /\ req[p].pc = "thumbnail"
    /\ LET filename == req[p].files[req[p].i].filename
       IN  IF sharpOk /\ existsSync(disk, Path(UPLOAD_DIRS.original, filename))
           THEN /\ disk' = disk \cup {Path(UPLOAD_DIRS.thumbnail, filename)}
                /\ req' = [req EXCEPT ![p].pc = "medium",
                                      ![p].ok = @ \cup {"thumbnail"}]
                /\ res' = NoResp
                /\ History(NoStep)
           ELSE Catch(p, req[p], disk)
    /\ UNCHANGED <<fileDatabase, nextRef, ntaken, made>>

\* the object processImage returns
ImagePaths(filename) ==
    [original |-> <<"/images/original/", filename>>,
     thumbnail |-> <<"/images/thumbnail/", filename>>,
     medium |-> <<"/images/medium/", filename>>]

\* a fileInfo whose filename is not the name the file was staged under
FileInfo_OtherName(ref, id, file) ==
    [ref |-> ref, id |-> id,
     filename |-> CHOOSE n \in Names : n # file.filename,
     mimetype |-> file.mimetype, size |-> file.size,
     paths |-> ImagePaths(file.filename)]

\* const fileInfo = { id: crypto.randomBytes(8).toString("hex"), ... }; ref
\* is the identity of the object
FileInfo(ref, id, file) ==
    [ref |-> ref, id |-> id, filename |-> file.filename,
     mimetype |-> file.mimetype, size |-> file.size,
     paths |-> ImagePaths(file.filename)]

\* fileDatabase.push(fileInfo) and what follows it up to the next await: the
\* answer of the single handler; in the multiple handler
\* uploadedFiles.push(fileInfo), then the next file or the answer
PushRecord(p, r, d, fileInfo, renameOk) ==
    /\ fileDatabase' = Append(fileDatabase, fileInfo)
    /\ made' = Append(made, r.ok)
    /\ nextRef' = nextRef + 1
    /\ IF r.kind = "single"
       THEN /\ res' = [Resp("upload", 201, "", "Image uploaded successfully")
                          EXCEPT !.files = <<fileInfo>>]
            /\ req' = [req EXCEPT ![p] = IdleReq]
            /\ disk' = d
            /\ History(NoStep)
       ELSE LET up == Append(r.uploadedFiles, fileInfo)
            IN  IF r.i < Len(r.files)
                THEN CommitFile(p, [r EXCEPT !.uploadedFiles = up, !.i = @ + 1,
                                            !.ok = {}], d, renameOk)
                ELSE /\ res' = [Resp("upload", 201, "",
                                    "images uploaded successfully")
                                   EXCEPT !.files = up]
                     /\ req' = [req EXCEPT ![p] = IdleReq]
                     /\ disk' = d
                     /\ History(NoStep)

\* MediumDone without the throw of processImage: the record is pushed also
\* when the medium version failed
MediumDone_PushAnyway(p, sharpOk, id, renameOk) ==
    /\ req[p].pc = "medium"
    /\ LET r == req[p]
           file == r.files[r.i]
           done == sharpOk /\ existsSync(disk, Path(UPLOAD_DIRS.original, file.filename))
       IN  PushRecord(p, [r EXCEPT !.ok = IF done THEN @ \cup {"medium"} ELSE @],
                      IF done THEN disk \cup {Path(UPLOAD_DIRS.medium, file.filename)}
                              ELSE disk,
                      FileInfo(nextRef, id, file), renameOk)
    /\ UNCHANGED ntaken

\* processImage: sharp(originalPath).resize(800, 800).toFile(mediumPath)
\* settles; on success the handler builds the record, appends it and either
\* answers or turns to the next file of the request
MediumDone(p, sharpOk, id, renameOk) ==
    /\ req[p].pc = "medium"
    /\ LET r == req[p]
           file == r.files[r.i]
       IN  IF sharpOk /\ existsSync(disk, Path(UPLOAD_DIRS.original, file.filename))
           THEN PushRecord(p, [r EXCEPT !.ok = @ \cup {"medium"}],
                           disk \cup {Path(UPLOAD_DIRS.medium, file.filename)},
                           FileInfo(nextRef, id, file), renameOk)
           ELSE /\ Catch(p, r, disk)
                /\ UNCHANGED <<fileDatabase, made, nextRef>>
    /\ UNCHANGED ntaken

(* -------------------- the get, list and delete handlers --------------- *)

\* GET /api/images
GetImages ==
    /\ res' = [Resp("list", 200, "", "") EXCEPT !.files = fileDatabase]
    /\ UNCHANGED <<fileDatabase, disk, req, nextRef, ntaken, made>>
    /\ History(NoStep)

\* fileDatabase.findIndex((file) => file.id === id), 0 standing for -1
RECURSIVE findIndexFrom(_, _, _)
findIndexFrom(db, id, k) ==
    IF k > Len(db) THEN 0
    ELSE IF db[k].id = id THEN k
    ELSE findIndexFrom(db, id, k + 1)

findIndex(db, id) == findIndexFrom(db, id, 1)

\* the answer of GET /api/images/:id: fileDatabase.find(..), 404 or the record
GetResp(db, id) ==
    LET k == findIndex(db, id)
    IN  IF k = 0
        THEN [Resp("get", 404, "Image not found", "") EXCEPT !.id = id]
        ELSE [Resp("get", 200, "", "") EXCEPT !.id = id, !.files = <<db[k]>>]

\* GET /api/images/:id
GetImage(id) ==
    /\ res' = GetResp(fileDatabase, id)
    /\ UNCHANGED <<fileDatabase, disk, req, nextRef, ntaken, made>>
    /\ History(NoStep)

\* a splice that removes two records: fileDatabase.splice(fileIndex, 2)
splice_Two(db, k) ==
    LET c == IF k < Len(db) THEN 2 ELSE 1
    IN  [j \in 1..(Len(db) - c) |-> IF j < k THEN db[j] ELSE db[j + c]]

\* fileDatabase.splice(fileIndex, 1)
splice(db, k) == [j \in 1..(Len(db) - 1) |-> IF j < k THEN db[j] ELSE db[j + 1]]

\* the three paths of a record, in the order of filesToDelete
filesToDelete(fileInfo) ==
    <<Path(UPLOAD_DIRS.original, fileInfo.filename),
      Path(UPLOAD_DIRS.thumbnail, fileInfo.filename),
      Path(UPLOAD_DIRS.medium, fileInfo.filename)>>

\* DeleteOne with a catch block that does not set deletionErrors
DeleteOne_NoFlag(st, filePath, failing) ==
    IF existsSync(st.disk, filePath)
    THEN IF filePath[1] \in failing
         THEN [st EXCEPT !.io = Append(@, "failed")]
         ELSE [st EXCEPT !.disk = @ \ {filePath}, !.io = Append(@, "unlinked")]
    ELSE [st EXCEPT !.io = Append(@, "absent")]

\* DeleteOne without the existsSync test: unlinkSync of a missing file throws
DeleteOne_NoExistsCheck(st, filePath, failing) ==
    IF existsSync(st.disk, filePath)
    THEN IF filePath[1] \in failing
         THEN [st EXCEPT !.io = Append(@, "failed"), !.deletionErrors = TRUE]
         ELSE [st EXCEPT !.disk = @ \ {filePath}, !.io = Append(@, "unlinked")]
    ELSE [st EXCEPT !.io = Append(@, "absent"), !.deletionErrors = TRUE]

\* one turn of filesToDelete.forEach: existsSync, then unlinkSync, whose
\* exception is caught and sets deletionErrors; st holds the disk, the
\* outcome per path and the flag so far; unlinkSync throws in the
\* directories of failing
DeleteOne(st, filePath, failing) ==
    IF existsSync(st.disk, filePath)
    THEN IF filePath[1] \in failing
         THEN [st EXCEPT !.io = Append(@, "failed"), !.deletionErrors = TRUE]
         ELSE [st EXCEPT !.disk = @ \ {filePath}, !.io = Append(@, "unlinked")]
    ELSE [st EXCEPT !.io = Append(@, "absent")]

\* a loop that ends at the first unlink that fails
RECURSIVE DeleteLoop_StopOnError(_, _, _, _)
DeleteLoop_StopOnError(st, paths, k, failing) ==
    IF k > Len(paths) \/ st.deletionErrors THEN st
    ELSE DeleteLoop_StopOnError(DeleteOne(st, paths[k], failing), paths, k + 1,
                                failing)

\* filesToDelete.forEach(...)
RECURSIVE DeleteLoop(_, _, _, _)
DeleteLoop(st, paths, k, failing) ==
    IF k > Len(paths) THEN st
    ELSE DeleteLoop(DeleteOne(st, paths[k], failing), paths, k + 1, failing)

\* the answer of the delete handler after the splice
DeleteResp(id, deletionErrors) ==
    IF deletionErrors
    THEN [Resp("delete", 200, "",
               "Image record deleted but some files could not be removed from disk. They will be cleaned up later.")
             EXCEPT !.partialSuccess = TRUE, !.id = id]
    ELSE [Resp("delete", 200, "", "Image deleted successfully") EXCEPT !.id = id]

\* DeleteImage that keeps the record when a file could not be removed
DeleteImage_KeepOnError(id, failing) ==
    LET fileIndex == findIndex(fileDatabase, id)
    IN  IF fileIndex = 0
        THEN /\ res' = [Resp("delete", 404, "Image not found", "") EXCEPT !.id = id]
             /\ UNCHANGED <<fileDatabase, disk, req, nextRef, ntaken, made>>
             /\ History(NoStep)
        ELSE LET fileInfo == fileDatabase[fileIndex]
                 paths == filesToDelete(fileInfo)
                 st == DeleteLoop([disk |-> disk, io |-> <<>>,
                                   deletionErrors |-> FALSE], paths, 1, failing)
             IN  /\ disk' = st.disk
                 /\ fileDatabase' = IF st.deletionErrors THEN fileDatabase
                                    ELSE splice(fileDatabase, fileIndex)
                 /\ res' = DeleteResp(id, st.deletionErrors)
                 /\ History([NoStep EXCEPT
                        !.io = st.io, !.deleted = <<fileInfo>>,
                        !.ext = \E k \in 1..Len(paths) : paths[k] \in extRemoved])
                 /\ UNCHANGED <<req, nextRef, ntaken, made>>

\* DeleteImage that splices before it tests fileIndex: splice(-1, 1) removes
\* the last record
DeleteImage_SpliceFirst(id, failing) ==
    LET fileIndex == findIndex(fileDatabase, id)
    IN  IF fileIndex = 0
        THEN /\ res' = [Resp("delete", 404, "Image not found", "") EXCEPT !.id = id]
             /\ fileDatabase' = IF fileDatabase = <<>> THEN fileDatabase
                                ELSE splice(fileDatabase, Len(fileDatabase))
             /\ UNCHANGED <<disk, req, nextRef, ntaken, made>>
             /\ History(NoStep)
        ELSE LET fileInfo == fileDatabase[fileIndex]
                 paths == filesToDelete(fileInfo)
                 st == DeleteLoop([disk |-> disk, io |-> <<>>,
                                   deletionErrors |-> FALSE], paths, 1, failing)
             IN  /\ disk' = st.disk
                 /\ fileDatabase' = splice(fileDatabase, fileIndex)
                 /\ res' = DeleteResp(id, st.deletionErrors)
                 /\ History([NoStep EXCEPT
                        !.io = st.io, !.deleted = <<fileInfo>>,
                        !.ext = \E k \in 1..Len(paths) : paths[k] \in extRemoved])
                 /\ UNCHANGED <<req, nextRef, ntaken, made>>

\* DeleteImage whose splice comes after other requests have run: the index
\* it found no longer designates its record (here the last record goes)
DeleteImage_StaleIndex(id, failing) ==
    LET fileIndex == findIndex(fileDatabase, id)
    IN  IF fileIndex = 0
        THEN /\ res' = [Resp("delete", 404, "Image not found", "") EXCEPT !.id = id]
             /\ UNCHANGED <<fileDatabase, disk, req, nextRef, ntaken, made>>
             /\ History(NoStep)
        ELSE LET fileInfo == fileDatabase[fileIndex]
                 paths == filesToDelete(fileInfo)
                 st == DeleteLoop([disk |-> disk, io |-> <<>>,
                                   deletionErrors |-> FALSE], paths, 1, failing)
             IN  /\ disk' = st.disk
                 /\ fileDatabase' = splice(fileDatabase, Len(fileDatabase))
                 /\ res' = DeleteResp(id, st.deletionErrors)
                 /\ History([NoStep EXCEPT
                        !.io = st.io, !.deleted = <<fileInfo>>,
                        !.ext = \E k \in 1..Len(paths) : paths[k] \in extRemoved])
                 /\ UNCHANGED <<req, nextRef, ntaken, made>>

\* DELETE /api/images/:id
DeleteImage(id, failing) ==
    LET fileIndex == findIndex(fileDatabase, id)
    IN  IF fileIndex = 0
        THEN /\ res' = [Resp("delete", 404, "Image not found", "") EXCEPT !.id = id]
             /\ UNCHANGED <<fileDatabase, disk, req, nextRef, ntaken, made>>
             /\ History(NoStep)
        ELSE LET fileInfo == fileDatabase[fileIndex]
                 paths == filesToDelete(fileInfo)
                 st == DeleteLoop([disk |-> disk, io |-> <<>>,
                                   deletionErrors |-> FALSE], paths, 1, failing)
             IN  /\ disk' = st.disk
                 /\ fileDatabase' = splice(fileDatabase, fileIndex)
                 /\ res' = DeleteResp(id, st.deletionErrors)
                 /\ History([NoStep EXCEPT
                        !.io = st.io, !.deleted = <<fileInfo>>,
                        !.ext = \E k \in 1..Len(paths) : paths[k] \in extRemoved])
                 /\ UNCHANGED <<req, nextRef, ntaken, made>>

(* --------------------------- environment ------------------------------ *)

\* somebody else removes a stored file (the original or a derivative) of a
\* record of the catalog
ExternalRemove(path) ==
    /\ path \in disk
    /\ \E k \in 1..Len(fileDatabase) : fileDatabase[k].filename = path[2]
    /\ nexternal < MaxExternal
    /\ nexternal' = nexternal + 1
    /\ disk' = disk \ {path}
    /\ extRemoved' = extRemoved \cup {path}
    /\ res' = NoResp
    /\ step' = NoStep
    /\ UNCHANGED <<fileDatabase, req, nextRef, ntaken, made>>

(* -------------------------- specifications ---------------------------- *)

StoredPaths == {Path(d, n) : d \in Dirs, n \in Names}

\* the sets of directories in which unlinkSync throws during one delete
FailingSets == SUBSET Dirs

Next ==
    \/ \E p \in Procs : StartUpload(p)
    \/ \E p \in Procs, m \in InputMimeTypes, s \in InputSizes, n \in Names :
          MulterFile(p, m, s, n)
    \/ \E p \in Procs, renameOk \in BOOLEAN : MulterFinish(p, renameOk)
    \/ \E p \in Procs, sharpOk \in BOOLEAN : ThumbnailDone(p, sharpOk)
    \/ \E p \in Procs, sharpOk \in BOOLEAN, id \in Ids, renameOk \in BOOLEAN :
          MediumDone(p, sharpOk, id, renameOk)
    \/ GetImages
    \/ \E id \in Ids : GetImage(id)
    \/ \E id \in Ids, failing \in FailingSets : DeleteImage(id, failing)

Spec == Init /\ [][Next]_vars

\* the same with files removed from outside
NextExt ==
    \/ Next
    \/ \E path \in StoredPaths : ExternalRemove(path)

SpecExt == Init /\ [][NextExt]_vars

\* multer takes the next part of the body of request p, or its end
Parse(p) ==
    \/ \E m \in InputMimeTypes, s \in InputSizes, n \in Names :
          MulterFile(p, m, s, n)
    \/ \E renameOk \in BOOLEAN : MulterFinish(p, renameOk)

\* the promise of sharp(..).toFile(..) the request p awaits settles
Settle(p) ==
    \/ \E sharpOk \in BOOLEAN : ThumbnailDone(p, sharpOk)
    \/ \E sharpOk \in BOOLEAN, id \in Ids, renameOk \in BOOLEAN :
          MediumDone(p, sharpOk, id, renameOk)

\* the same as Spec where the body of every request arrives in full and
\* every derivative generation completes, with success or with failure
SpecFair ==
    /\ Spec
    /\ \A p \in Procs : WF_vars(Parse(p)) /\ WF_vars(Settle(p))

\* the name n is in use nowhere: no file on disk, no record and no file of a
\* request in flight has it
Fresh(n) ==
    /\ \A q \in disk : q[2] # n
    /\ \A k \in 1..Len(fileDatabase) : fileDatabase[k].filename # n
    /\ \A p \in Procs : \A k \in 1..Len(req[p].files) :
          req[p].files[k].filename # n

\* the same as Spec where crypto.randomBytes(16) never returns a name that is
\* in use: the storage names are distinct
NextDistinct ==
    \/ \E p \in Procs : StartUpload(p)
    \/ \E p \in Procs, m \in InputMimeTypes, s \in InputSizes, n \in Names :
          Fresh(n) /\ MulterFile(p, m, s, n)
    \/ \E p \in Procs, renameOk \in BOOLEAN : MulterFinish(p, renameOk)
    \/ \E p \in Procs, sharpOk \in BOOLEAN : ThumbnailDone(p, sharpOk)
    \/ \E p \in Procs, sharpOk \in BOOLEAN, id \in Ids, renameOk \in BOOLEAN :
          MediumDone(p, sharpOk, id, renameOk)
    \/ GetImages
    \/ \E id \in Ids : GetImage(id)
    \/ \E id \in Ids, failing \in FailingSets : DeleteImage(id, failing)

SpecDistinct == Init /\ [][NextDistinct]_vars

(* ------------------------------ claims -------------------------------- *)

AllSteps == {"rename", "thumbnail", "medium"}

\* the refs of the records of the catalog
Refs(db) == {db[k].ref : k \in 1..Len(db)}

\* the three files of a record are on disk
FilesPresent(d, fileInfo) ==
    \A k \in 1..3 : filesToDelete(fileInfo)[k] \in d

\* the last step was a delete that found its record
Deleted == res.op = "delete" /\ res.status = 200

SomeFailed(io) == \E k \in 1..Len(io) : io[k] = "failed"

\* C1: every record of the catalog was pushed after the rename, the thumbnail
\* and the medium version of its file had all completed without error, and
\* the file an upload request is still working on has no record yet.
C1_RecordsAreComplete ==
    /\ \A k \in 1..Len(fileDatabase) :
          /\ fileDatabase[k].ref \in 1..Len(made)
          /\ made[fileDatabase[k].ref] = AllSteps
    /\ \A p \in Procs :
          req[p].pc \in {"thumbnail", "medium"} =>
             /\ req[p].ok # AllSteps
             /\ Len(req[p].uploadedFiles) = req[p].i - 1
             /\ \A k \in 1..Len(req[p].uploadedFiles) :
                   made[req[p].uploadedFiles[k].ref] = AllSteps

\* the multiple handler has pushed its first file and waits for the medium
\* version of its second one
C1_Witness ==
    \E p \in Procs :
       /\ req[p].kind = "multiple"
       /\ req[p].pc = "medium"
       /\ req[p].i = 2
       /\ Len(req[p].uploadedFiles) = 1
       /\ req[p].uploadedFiles[1].ref \in Refs(fileDatabase)

\* C2: after a delete that found its record has answered (with or without
\* partialSuccess), the record is not in the catalog and a lookup of the id
\* does not return it.
C2_DeletedRecordGone ==
    Deleted =>
       /\ Len(step.deleted) = 1
       /\ step.deleted[1].id = res.id
       /\ step.deleted[1].ref \notin Refs(fileDatabase)
       /\ GetResp(fileDatabase, res.id).files # step.deleted

\* a delete whose three unlinks all failed
C2_Witness ==
    /\ Deleted
    /\ step.io = <<"failed", "failed", "failed">>
    /\ res.partialSuccess

\* C3: a delete of an id that no record has answers 404 "Image not found",
\* makes no disk call and leaves the catalog and the disk as they are.
C3_UnknownIdNoEffect ==
    [][(res'.op = "delete" /\ findIndex(fileDatabase, res'.id) = 0) =>
          /\ res'.status = 404
          /\ res'.error = "Image not found"
          /\ step'.io = <<>>
          /\ step'.deleted = <<>>
          /\ disk' = disk
          /\ fileDatabase' = fileDatabase]_vars

\* a delete of an unknown id answered 404 while the catalog holds a record
\* whose files are on disk
C3_Witness ==
    /\ res.op = "delete"
    /\ res.status = 404
    /\ Len(fileDatabase) >= 1
    /\ FilesPresent(disk, fileDatabase[1])

\* C4: a delete that found its record answers with partialSuccess exactly
\* when the unlink of at least one of its three paths failed.
C4_PartialIffSomeUnlinkFailed ==
    Deleted =>
       /\ Len(step.io) = 3
       /\ res.partialSuccess <=> SomeFailed(step.io)
       /\ res.message = IF SomeFailed(step.io)
                        THEN "Image record deleted but some files could not be removed from disk. They will be cleaned up later."
                        ELSE "Image deleted successfully"

\* only the unlink of the thumbnail failed
C4_Witness ==
    /\ Deleted
    /\ step.io = <<"unlinked", "failed", "unlinked">>
    /\ res.partialSuccess

\* C5 as the specification states it: when one of the three files of the
\* record had been removed from outside before the delete, the delete
\* answers with partialSuccess.
C5_ExternalRemovalGivesPartial ==
    (Deleted /\ step.ext) => res.partialSuccess

\* C5, amended: when one of the three files of the record had been removed
\* from outside before the delete, the delete skips the missing file without
\* an error: it answers with partialSuccess only when the unlink of a file
\* that is still there failed, and without it otherwise; either way the
\* record is no longer in the catalog.
C5_ExternalRemovalIsSkipped ==
    (Deleted /\ step.ext) =>
       /\ \E k \in 1..Len(step.io) : step.io[k] = "absent"
       /\ res.partialSuccess <=> SomeFailed(step.io)
       /\ step.deleted[1].ref \notin Refs(fileDatabase)

\* the thumbnail had been removed from outside and the delete answered
\* without partialSuccess
C5_Witness ==
    /\ Deleted
    /\ step.ext
    /\ step.io = <<"unlinked", "absent", "unlinked">>
    /\ ~res.partialSuccess

\* C6: right after an upload has answered 201, a lookup of the id of the
\* record it pushed returns a record with that id; a delete whose unlinks
\* all succeed answers without partialSuccess; and right after a delete that
\* found its record has answered, a lookup of the id answers 404.
C6_IngestGetDeleteGet ==
    /\ (res.op = "upload" /\ res.status = 201) =>
          LET x == res.files[Len(res.files)].id
          IN  /\ GetResp(fileDatabase, x).status = 200
              /\ GetResp(fileDatabase, x).files[1].id = x
    /\ (Deleted /\ ~SomeFailed(step.io)) => ~res.partialSuccess
    /\ Deleted => GetResp(fileDatabase, res.id).status = 404

\* C7: an upload that fileFilter rejects writes no stored file, appends no
\* record and is answered with the message of the validation error.
C7_ValidationErrorReported ==
    [][step'.err = FilterError =>
          /\ fileDatabase' = fileDatabase
          /\ Stored(disk') = Stored(disk)
          /\ res'.op = "upload"
          /\ res'.error = FilterError.message]_vars

LimitCodes == {"LIMIT_FILE_SIZE", "LIMIT_FILE_COUNT"}

\* C8: the size limit and the file-count limit are answered with two
\* different 400 answers, each different from the answer to a validation
\* error and from the answers of the catch blocks; the step that answers
\* ends the request before the handler body, appends no record and writes
\* no stored file.
C8_LimitsAreDistinct ==
    [][step'.err.code \in LimitCodes =>
          /\ res'.op = "upload"
          /\ res'.status = 400
          /\ \A c \in LimitCodes \ {step'.err.code} :
                res' # handleMulterError(MulterError(c))
          /\ res' \notin {handleMulterError(FilterError),
                          UploadError("single"), UploadError("multiple")}
          /\ \A p \in Procs :
                req'[p] # req[p] => req[p].pc = "parsing" /\ req'[p] = IdleReq
          /\ fileDatabase' = fileDatabase
          /\ Stored(disk') = Stored(disk)]_vars

\* a sixth file part has met the limit of five files
C8_Witness ==
    /\ step.err = MulterError("LIMIT_FILE_COUNT")
    /\ res.status = 400
    /\ res.error = "Too many files. Maximum is 5 files."

\* C9: a request to the multiple handler that ends in the catch block has run
\* every file of the request: the failure of one file leaves no later file
\* of the request unprocessed.
C9_FilesAreIndependent ==
    (res.op = "upload" /\ res.status = 500 /\ step.n > 0) => step.i = step.n

\* C10: the step in which an upload request fails removes no record from
\* the catalog and deletes no stored file: the catalog before the step is a
\* prefix of the catalog after it, and the records the request has already
\* pushed stay with their original, thumbnail and medium files.
C10_FailureKeepsCommitted ==
    [][(res'.op = "upload" /\ res'.status >= 400) =>
          /\ Len(fileDatabase') >= Len(fileDatabase)
          /\ SubSeq(fileDatabase', 1, Len(fileDatabase)) = fileDatabase
          /\ Stored(disk) \subseteq Stored(disk')
          /\ \A k \in 1..Len(step'.uploaded) :
                LET f == step'.uploaded[k]
                IN  /\ (f.ref \in Refs(fileDatabase) \/ f.ref = nextRef)
                          => f.ref \in Refs(fileDatabase')
                    /\ FilesPresent(disk, f) => FilesPresent(disk', f)]_vars

\* the second file of a request failed; the record of the first one is in
\* the catalog and its three files are on disk
C10_Witness ==
    /\ res.op = "upload"
    /\ res.status = 500
    /\ step.i = 2
    /\ Len(step.uploaded) = 1
    /\ step.uploaded[1].ref \in Refs(fileDatabase)
    /\ FilesPresent(disk, step.uploaded[1])

\* the steps done for a file whose thumbnail or medium version failed
DerivativeFailed == {{"rename"}, {"rename", "thumbnail"}}

\* C11: the step in which the thumbnail or the medium version of a file fails
\* ends the request with a 500, appends no record, and leaves the disk as it
\* is: the original and a thumbnail already written for the file are not
\* removed.
C11_DerivativeFailureNoRollback ==
    [][\A p \in Procs :
          (req'[p] # req[p] /\ req[p].pc \in {"thumbnail", "medium"}
              /\ step'.ok \in DerivativeFailed) =>
             /\ res' = UploadError(req[p].kind)
             /\ req'[p] = IdleReq
             /\ fileDatabase' = fileDatabase
             /\ nextRef' = nextRef
             /\ disk' = disk]_vars

\* the medium version of a file failed: its original and its thumbnail are
\* on disk, it has no medium version and the catalog is empty
C11_Witness ==
    /\ res.status = 500
    /\ step.ok = {"rename", "thumbnail"}
    /\ fileDatabase = <<>>
    /\ \E n \in Names :
          /\ Path(UPLOAD_DIRS.original, n) \in disk
          /\ Path(UPLOAD_DIRS.thumbnail, n) \in disk
          /\ Path(UPLOAD_DIRS.medium, n) \notin disk

\* the files of d in temp/
Staged(d) == {q \in d : q[1] = UPLOAD_DIRS.temp}

\* C12: the step in which the move of a staged file from temp to original
\* fails ends the request with a 500; the files in temp stay as they are, no
\* original and no thumbnail is written for the file, the request does not
\* go on to the derivatives, and no record is appended for the file (the
\* only record the step can append is that of the file before it, whose
\* medium version completed in the same step).
C12_RenameFailureLeavesTemp ==
    [][\A p \in Procs :
          (req'[p] # req[p] /\ req[p].pc \in {"parsing", "medium"}
              /\ step'.n > 0 /\ step'.ok = {}) =>
             LET f == req[p].files[step'.i].filename
             IN  /\ res' = UploadError(req[p].kind)
                 /\ req'[p] = IdleReq
                 /\ Staged(disk') = Staged(disk)
                 /\ Path(UPLOAD_DIRS.original, f) \in disk'
                       => Path(UPLOAD_DIRS.original, f) \in disk
                 /\ Path(UPLOAD_DIRS.thumbnail, f) \in disk'
                       => Path(UPLOAD_DIRS.thumbnail, f) \in disk
                 /\ Len(step'.uploaded) = step'.i - 1
                 /\ fileDatabase' =
                       IF req[p].pc = "medium"
                       THEN Append(fileDatabase, step'.uploaded[step'.i - 1])
                       ELSE fileDatabase]_vars

\* the move of the only file of a request failed: the file is still in
\* temp, nothing is stored and the catalog is empty
C12_Witness ==
    /\ res.status = 500
    /\ step.n = 1
    /\ step.ok = {}
    /\ \E n \in Names : Path(UPLOAD_DIRS.temp, n) \in disk
    /\ Stored(disk) = {}
    /\ fileDatabase = <<>>

\* C13: no two records of the catalog have the same id.
C13_IdsAreUnique ==
    \A j, k \in 1..Len(fileDatabase) :
       j # k => fileDatabase[j].id # fileDatabase[k].id

\* C14: every upload request in flight eventually ends (its slot is idle
\* again after an answer was sent), provided its body arrives and every
\* derivative generation settles; the list, get and delete handlers have no
\* await and answer in the step in which they run.
C14_RequestsEnd ==
    \A p \in Procs : (req[p].pc # "idle") ~> (req[p].pc = "idle")

\* a request to the multiple handler has ended with two records
C14_Witness ==
    /\ res.op = "upload"
    /\ res.status = 201
    /\ Len(res.files) = 2
    /\ \A p \in Procs : req[p].pc = "idle"

\* C15: a delete that finds its record runs as one step: the record it
\* removes is the one its lookup found in the catalog as it was before the
\* step, the catalog after the step is that catalog without this record, the
\* files the step removes are files of this record, no upload request moves
\* within the step, and a lookup after the step does not return the record.
C15_DeleteIsOneStep ==
    [][(res'.op = "delete" /\ res'.status = 200) =>
          LET k == findIndex(fileDatabase, res'.id)
          IN  /\ k # 0
              /\ step'.deleted = <<fileDatabase[k]>>
              /\ fileDatabase' = splice(fileDatabase, k)
              /\ fileDatabase[k].ref \notin Refs(fileDatabase')
              /\ \A j \in 1..Len(fileDatabase) :
                    j # k => fileDatabase[j].ref \in Refs(fileDatabase')
              /\ disk \ disk' \subseteq
                    {filesToDelete(fileDatabase[k])[j] : j \in 1..3}
              /\ req' = req
              /\ GetResp(fileDatabase', res'.id).files # <<fileDatabase[k]>>]_vars

\* a delete removed the first of two records while an upload request was
\* being parsed
C15_Witness ==
    /\ Deleted
    /\ Len(fileDatabase) = 1
    /\ step.deleted[1].ref < fileDatabase[1].ref
    /\ \E p \in Procs : req[p].pc = "parsing"

\* the files a step wrote, and the files it removed
Written == disk' \ disk

Removed == disk \ disk'

\* C16: the name a file was staged under stays the name of the file through
\* the request: the handler moves the file to original/ under that name,
\* writes the thumbnail and the medium version under that name in their
\* directories, the record it appends carries that name and the three paths
\* made of it, records in the catalog are never changed, and a delete
\* removes the files of that name in original/, thumbnail/ and medium/ and
\* no other file.
C16_StorageNameFixed ==
    [][/\ \A p \in Procs :
             /\ (req[p].pc # "idle" /\ req'[p].pc # "idle") =>
                   /\ Len(req'[p].files) >= Len(req[p].files)
                   /\ SubSeq(req'[p].files, 1, Len(req[p].files)) = req[p].files
             /\ (req[p].pc = "parsing" /\ req'[p].pc = "thumbnail") =>
                   /\ Written \subseteq
                         {Path(UPLOAD_DIRS.original, req[p].files[1].filename)}
                   /\ Path(UPLOAD_DIRS.original, req[p].files[1].filename) \in disk'
             /\ (req[p].pc = "thumbnail" /\ req'[p] # req[p]) =>
                   Written \subseteq
                      {Path(UPLOAD_DIRS.thumbnail, req[p].files[req[p].i].filename)}
             /\ (req[p].pc = "medium" /\ req'[p] # req[p]) =>
                   LET name == req[p].files[req[p].i].filename
                   IN  /\ Written \subseteq
                             {Path(UPLOAD_DIRS.medium, name)} \cup
                             {Path(UPLOAD_DIRS.original, req[p].files[k].filename) :
                                 k \in {req[p].i + 1} \cap 1..Len(req[p].files)}
                       /\ \A k \in (Len(fileDatabase) + 1)..Len(fileDatabase') :
                             /\ fileDatabase'[k].filename = name
                             /\ fileDatabase'[k].paths = ImagePaths(name)
                             /\ Path(UPLOAD_DIRS.medium, name) \in disk'
       /\ \A k \in 1..Len(fileDatabase) :
             fileDatabase[k].ref \in Refs(fileDatabase')
                => fileDatabase[k] \in {fileDatabase'[j] : j \in 1..Len(fileDatabase')}
       /\ (res'.op = "delete" /\ res'.status = 200) =>
             LET paths == filesToDelete(step'.deleted[1])
             IN  /\ paths = <<Path(UPLOAD_DIRS.original, step'.deleted[1].filename),
                              Path(UPLOAD_DIRS.thumbnail, step'.deleted[1].filename),
                              Path(UPLOAD_DIRS.medium, step'.deleted[1].filename)>>
                 /\ step'.deleted[1].paths = ImagePaths(step'.deleted[1].filename)
                 /\ Removed = {paths[k] : k \in {j \in 1..3 : step'.io[j] = "unlinked"}}
       /\ (res'.op = "delete" /\ res'.status # 200) => Removed = {}]_vars

\* a delete has removed the three files of its record, and only them: the
\* files of the other record are all on disk
C16_Witness ==
    /\ Deleted
    /\ step.io = <<"unlinked", "unlinked", "unlinked">>
    /\ \A k \in 1..3 : filesToDelete(step.deleted[1])[k] \notin disk
    /\ Len(fileDatabase) = 1
    /\ FilesPresent(disk, fileDatabase[1])

\* C17: a delete that finds its record goes through its three paths in the
\* order original, thumbnail, medium, whatever happened on the paths before:
\* a path that is on disk is either unlinked (it is gone after the step) or
\* its unlink fails (it stays, and the answer carries partialSuccess), a
\* path that is not on disk is skipped.
C17_LoopContinuesAfterFailure ==
    [][(res'.op = "delete" /\ res'.status = 200) =>
          LET paths == filesToDelete(step'.deleted[1])
          IN  /\ Len(step'.io) = 3
              /\ \A k \in 1..3 :
                    /\ step'.io[k] = "unlinked"
                          <=> (paths[k] \in disk /\ paths[k] \notin disk')
                    /\ step'.io[k] = "failed"
                          <=> (paths[k] \in disk /\ paths[k] \in disk')
                    /\ step'.io[k] = "absent" <=> paths[k] \notin disk
                    /\ step'.io[k] = "failed" => res'.partialSuccess]_vars

\* the unlink of the original failed and the two derivatives were removed
\* after it
C17_Witness ==
    /\ Deleted
    /\ step.io = <<"failed", "unlinked", "unlinked">>
    /\ filesToDelete(step.deleted[1])[1] \in disk
    /\ filesToDelete(step.deleted[1])[2] \notin disk
    /\ filesToDelete(step.deleted[1])[3] \notin disk

\* C18: when the thumbnail of a file settles, with success or with failure,
\* the request goes on to the medium version of the file: a failed thumbnail
\* does not keep the medium version from being attempted.
C18_MediumAttemptedAfterThumbnail ==
    [][\A p \in Procs :
          (req[p].pc = "thumbnail" /\ req'[p] # req[p]) => req'[p].pc = "medium"]_vars

\* db without its k-th record
Without(db, k) == SubSeq(db, 1, k - 1) \o SubSeq(db, k + 1, Len(db))

\* C19: every step leaves the catalog as it is, or appends one new record at
\* its end, or removes one record, the records that stay keeping their
\* content and their order.  A delete that finds its record removes exactly
\* one record, which has the id asked for; every other step that changes the
\* catalog appends the record of the file whose medium version has just
\* completed.  The list and get handlers, a delete that finds no record, a
\* request multer rejects, a request without a file and a file whose
\* thumbnail or medium version fails leave the catalog unchanged; when the
\* move of a file fails, no record is appended for that file.
C19_CatalogAppendRemoveOnly ==
    [][/\ (res'.op = "delete" /\ res'.status = 200) =>
             \E k \in 1..Len(fileDatabase) :
                /\ fileDatabase[k].id = res'.id
                /\ fileDatabase' = Without(fileDatabase, k)
       /\ ~(res'.op = "delete" /\ res'.status = 200) =>
             \/ fileDatabase' = fileDatabase
             \/ /\ Len(fileDatabase') = Len(fileDatabase) + 1
                /\ SubSeq(fileDatabase', 1, Len(fileDatabase)) = fileDatabase
                /\ fileDatabase'[Len(fileDatabase')].ref = nextRef
                /\ nextRef \notin Refs(fileDatabase)
                /\ \E p \in Procs :
                      /\ req[p].pc = "medium"
                      /\ req'[p] # req[p]
                      /\ fileDatabase'[Len(fileDatabase')].filename
                            = req[p].files[req[p].i].filename
       /\ (\/ res'.op \in {"get", "list"}
           \/ res'.op = "delete" /\ res'.status = 404
           \/ res'.op = "upload" /\ res'.status = 400
           \/ step'.err # NoError
           \/ step'.ok \in DerivativeFailed) => fileDatabase' = fileDatabase
       /\ (step'.n > 0 /\ step'.ok = {}) =>
             \A k \in (Len(fileDatabase) + 1)..Len(fileDatabase') :
                /\ step'.i > 1
                /\ fileDatabase'[k] = step'.uploaded[step'.i - 1]]_vars

\* a delete removed the first of two records with different ids and the
\* second one stayed
C19_Witness ==
    /\ Deleted
    /\ Len(fileDatabase) = 1
    /\ fileDatabase[1].id # res.id
    /\ step.deleted[1].ref < fileDatabase[1].ref

\* C20: with distinct storage names and no change to the disk from outside,
\* the original, the thumbnail and the medium file of every record of the
\* catalog are on disk, in every reachable state.
C20_RecordsHaveTheirFiles ==
    \A k \in 1..Len(fileDatabase) : FilesPresent(disk, fileDatabase[k])

\* the catalog holds a record with its three files while files without a
\* record, left by a delete whose unlinks failed, are on disk
C20_Witness ==
    /\ Len(fileDatabase) = 1
    /\ FilesPresent(disk, fileDatabase[1])
    /\ \E q \in Stored(disk) : q[2] # fileDatabase[1].filename
    /\ \A p \in Procs : req[p].pc = "idle"
    /\ nextRef = 3

====
